---- MODULE Spec2Model ----
(***************************************************************************)
(* A model of Tiki_Crawling.py: the batch scheduler (process_in_batches,   *)
(* fetch_all_products, chunked), the structured-data extractor and the     *)
(* product mapper (build_product_from_url), the discovery dedup loop       *)
(* (scrape_category_urls) and the page fetcher's retry policy              *)
(* (build_session, get_page).                                              *)
(***************************************************************************)
EXTENDS Integers, Sequences, FiniteSets, TLC

\* ---------------------------------------------------------------- bounds
MaxUrls       == 5    \* longest URL list handed to process_in_batches
MaxBatchLimit == 3    \* largest per_batch_limit tried
MaxWorkers    == 2    \* largest max_workers tried

VARIABLES
    \* --- process_in_batches / fetch_all_products
    urls,             \* the list handed to process_in_batches
    per_batch_limit,  \* its per_batch_limit argument
    max_workers,      \* its max_workers argument
    batches,          \* list(chunked(urls, per_batch_limit))
    idx,              \* the for loop's batch number (1-based, 0 before the loop)
    pc,               \* where the scheduler thread is
    nsub,             \* how many futures of the current batch are submitted
    st,               \* st[u]: where the task of URL u is
    started,          \* started[u]: how many times a worker began _task(u)
    collected,        \* collected[u]: as_completed has yielded u's future
    rows,             \* fetch_all_products' local rows
    all_rows,         \* process_in_batches' all_rows
    sleeps,           \* number of time.sleep(cooldown_sec) calls made
    cooled,           \* batch numbers whose cooldown sleep has returned
    \* --- build_product_from_url
    doc,              \* the ld+json script blocks of the fetched document
    page,             \* page-level metadata: title, meta description, meta product
    bi,               \* blocks consumed by parse_ldjson_all's loop
    objs,             \* parse_ldjson_all's objs
    pick,             \* what pick_product_obj did
    prod,             \* prod of build_product_from_url
    record,           \* the dict the task returns
    bpc,              \* where build_product_from_url is
    berr,             \* the exception that left it, and the stage that raised
    \* --- scrape_category_urls' dedup loop
    hrefs,            \* the harvested raw URLs (urls, line 252)
    cleaned,          \* cleaned
    seen,             \* seen
    di,               \* raw URLs consumed by the loop
    dpc,              \* where the dedup loop is
    \* --- get_page
    attempts,         \* attempts[f]: GET attempts made by fetch f
    retries,          \* retries[f]: what is left of fetch f's Retry.total
    last,             \* last[f]: what fetch f's latest attempt met
    fres              \* fres[f]: "pending", "document" or "failure"

schedVars == <<urls, per_batch_limit, max_workers, batches, idx, pc, nsub, st,
               started, collected, rows, all_rows, sleeps, cooled>>

buildVars == <<doc, page, bi, objs, pick, prod, record, bpc, berr>>

dedupVars == <<hrefs, cleaned, seen, di, dpc>>

fetchVars == <<attempts, retries, last, fres>>

vars == <<schedVars, buildVars, dedupVars, fetchVars>>

\* ---------------------------------------------------------------- helpers
Min(a, b) == IF a < b THEN a ELSE b
Max(a, b) == IF a > b THEN a ELSE b
Range(s)  == {s[i] : i \in 1..Len(s)}

RECURSIVE Flatten(_)
Flatten(ss) == IF Len(ss) = 0 THEN <<>> ELSE Head(ss) \o Flatten(Tail(ss))

Count(x, s) == Cardinality({i \in 1..Len(s) : s[i] = x})

\* ---------------------------------------------------------------- chunked
\* seq[lo:hi] with Python's 0-based, end-exclusive, clamped slice
Slice(seq, lo, hi) == [j \in 1..(Min(hi, Len(seq)) - lo) |-> seq[lo + j]]

\* range(0, n, size)
RangeStarts(n, size) == {i \in 0..(n - 1) : i % size = 0}

\* chunked with the slice one element too long: seq[i:i+size+1]
chunkedWide(seq, size) ==
    [k \in 1..Cardinality(RangeStarts(Len(seq), size)) |->
        Slice(seq, (k - 1) * size, (k - 1) * size + size + 1)]

\* for i in range(0, len(seq), size): yield seq[i:i+size]
chunked(seq, size) ==
    [k \in 1..Cardinality(RangeStarts(Len(seq), size)) |->
        Slice(seq, (k - 1) * size, (k - 1) * size + size)]

\* ---------------------------------------------------------------- JSON values
\* A parsed JSON value seen through one key of a mapping: its Python type and
\* its text.  "absent" is a missing key.
ABSENT  == [t |-> "absent", s |-> ""]
NULL    == [t |-> "null", s |-> "None"]
StrV(x) == [t |-> "str", s |-> x]
NumV(x) == [t |-> "num", s |-> x]
LISTV   == [t |-> "list", s |-> "[1]"]
DICTV   == [t |-> "dict", s |-> "{..}"]

\* d.get(key)
Get(v) == IF v.t = "absent" THEN NULL ELSE v
\* d.get(key, default)
GetD(v, d) == IF v.t = "absent" THEN d ELSE v
\* bool(v)
Truthy(v) ==
    CASE v.t \in {"absent", "null"} -> FALSE
      [] v.t = "str" -> v.s # ""
      [] v.t = "num" -> v.s # "0"
      [] OTHER -> TRUE
\* a or b
PyOr(a, b) == IF Truthy(a) THEN a ELSE b
\* str(v)
PyStr(v) == StrV(v.s)
\* s.lower()
Lower(x) ==
    CASE x \in {"Product", "PRODUCT", "product"} -> "product"
      [] x \in {"Thing", "thing"} -> "thing"
      [] x \in {"InStock", "instock"} -> "instock"
      [] x \in {"OutOfStock", "outofstock"} -> "outofstock"
      [] OTHER -> x
\* s.split("/")[-1]
LastSegment(x) ==
    CASE x = "https://schema.org/InStock" -> "InStock"
      [] x = "https://schema.org/OutOfStock" -> "OutOfStock"
      [] OTHER -> x
\* s.strip()
Strip(x) ==
    CASE x = " Nice lamp " -> "Nice lamp"
      [] x = " Page description " -> "Page description"
      [] x = " " -> ""
      [] OTHER -> x
\* s.endswith("StrikethroughPrice")
EndsWithStrikethroughPrice(x) ==
    x \in {"https://schema.org/StrikethroughPrice", "StrikethroughPrice"}

\* ---------------------------------------------------------------- structured objects
\* the "@type" value: absent, a string, or a list of strings
NoTag       == [t |-> "absent", s |-> "", l |-> <<>>]
StrTag(x)   == [t |-> "str", s |-> x, l |-> <<>>]
ListTag(xs) == [t |-> "list", s |-> "", l |-> xs]

\* A structured object: a mapping with its nested mappings (image, offers,
\* offers.priceSpecification) laid out flat, or a value that is no mapping.
MkObj(tag, name, desc, image, image_url, off) ==
    [kind |-> "dict", type |-> tag, name |-> name, sku |-> ABSENT,
     description |-> desc, image |-> image, image_url |-> image_url,
     offers |-> off.offers, price |-> off.price,
     priceValidUntil |-> off.priceValidUntil,
     availability |-> off.availability,
     priceSpecification |-> off.priceSpecification,
     priceType |-> off.priceType, specPrice |-> off.specPrice]

MkOffers(o, price, pvu, avail, ps, ptype, sprice) ==
    [offers |-> o, price |-> price, priceValidUntil |-> pvu,
     availability |-> avail, priceSpecification |-> ps, priceType |-> ptype,
     specPrice |-> sprice]

NoOffers == MkOffers(ABSENT, ABSENT, ABSENT, ABSENT, ABSENT, ABSENT, ABSENT)

\* {}
EmptyObj == MkObj(NoTag, ABSENT, ABSENT, ABSENT, ABSENT, NoOffers)
\* a parsed value that is not a mapping (a number, a string)
ScalarObj == [EmptyObj EXCEPT !.kind = "scalar"]
\* an object carrying only a type tag and a name
TagObj(tag) == MkObj(tag, StrV("Lamp"), ABSENT, ABSENT, ABSENT, NoOffers)

\* ---------------------------------------------------------------- input documents
MaxBlocks == 2    \* most ld+json blocks in a document
MaxItems  == 2    \* most objects in one block's list or @graph

TypeTags ==
    {NoTag, StrTag("product"), StrTag("Thing"), ListTag(<<"Product">>),
     ListTag(<<"PRODUCT", "Thing">>)}

SimpleObjs == {TagObj(tag) : tag \in TypeTags} \cup {ScalarObj}

SeqsUpTo(S, n) == UNION {[1..k -> S] : k \in 0..n}

\* a script block: how its text parses, and the parsed value
Block(raw, kind, items) == [raw |-> raw, kind |-> kind, items |-> items]

SimpleBlocks ==
    {Block("empty", "none", <<>>), Block("bad", "none", <<>>)}
    \cup {Block(r, "single", <<o>>) : r \in {"ok", "strip_ok"}, o \in SimpleObjs}
    \cup {Block("ok", k, items) :
            k \in {"graph", "list"}, items \in SeqsUpTo(SimpleObjs, MaxItems)}

SimpleDocs == SeqsUpTo(SimpleBlocks, MaxBlocks)

OfferVals ==
    {MkOffers(o, ABSENT, ABSENT, ABSENT, ABSENT, ABSENT, ABSENT) : o \in {ABSENT, LISTV}}
    \cup {MkOffers(DICTV, price, pvu, avail, ABSENT, ABSENT, ABSENT) :
            price \in {ABSENT, NULL, StrV("199000"), NumV("199000")},
            pvu \in {ABSENT, NULL, StrV("2026-12-31")},
            avail \in {ABSENT, StrV("https://schema.org/InStock"),
                       StrV("https://schema.org/OutOfStock"), NumV("1")}}
    \cup {MkOffers(DICTV, StrV("199000"), ABSENT, avail, DICTV, ptype, sprice) :
            avail \in {ABSENT, StrV("https://schema.org/InStock")},
            ptype \in {ABSENT, NULL, NumV("1"),
                       StrV("https://schema.org/StrikethroughPrice"),
                       StrV("https://schema.org/ListPrice")},
            sprice \in {ABSENT, NumV("250000")}}

RichObjs ==
    {MkObj(StrTag("Product"), name, desc, ABSENT, ABSENT, off) :
        name \in {ABSENT, StrV("Lamp"), NumV("5")},
        desc \in {ABSENT, StrV(" Nice lamp "), NumV("5")},
        off \in OfferVals}
    \cup {MkObj(StrTag("Product"), StrV("Lamp"), ABSENT, im[1], im[2], NoOffers) :
        im \in {<<StrV("img.png"), ABSENT>>, <<LISTV, ABSENT>>, <<DICTV, ABSENT>>,
                <<DICTV, StrV("img.png")>>, <<DICTV, NumV("7")>>}}

RichDocs == {<<Block("ok", "single", <<o>>)>> : o \in RichObjs}

Pages ==
    {[title |-> "Page title", desc |-> d, pid |-> "123"] :
        d \in {"", " Page description "}}

\* ---------------------------------------------------------------- parse_ldjson_all
\* json.loads(raw) succeeds
LoadsRaw(b) == b.raw = "ok"
\* json.loads(raw.strip()) succeeds
LoadsStripped(b) == b.raw \in {"ok", "strip_ok"}

\* the objects one parsed block adds to objs
Aggregate(b) == b.items

\* ---------------------------------------------------------------- pick_product_obj
\* (isinstance(t, str) and t.lower() == "product")
\*   or (isinstance(t, list) and "Product" in t)
IsProductTag(tag) ==
    \/ tag.t = "str" /\ Lower(tag.s) = "product"
    \/ tag.t = "list" /\ "Product" \in Range(tag.l)

\* the for loop from object i on: the index returned, a raise on an object
\* without .get, or None
RECURSIVE PickFrom(_, _)
PickFrom(os, i) ==
    IF i > Len(os) THEN [res |-> "none", i |-> 0]
    ELSE IF os[i].kind # "dict" THEN [res |-> "raise", i |-> i]
    ELSE IF IsProductTag(os[i].type) THEN [res |-> "found", i |-> i]
    ELSE PickFrom(os, i + 1)

pick_product_obj(os) == PickFrom(os, 1)

\* ---------------------------------------------------------------- the mapper
WOO_HEADERS ==
    {"ID", "Type", "SKU", "Name", "Published", "Is featured?",
     "Visibility in catalog", "Short description", "Description",
     "Date sale price starts", "Date sale price ends", "Tax status",
     "Tax class", "In stock?", "Stock", "Low stock amount",
     "Backorders allowed?", "Sold individually?", "Weight(kg)", "Length(cm)",
     "Width(cm)", "Height(cm)", "Allow customer reviews?", "Purchase note",
     "Sale price", "Regular price", "Categories", "Tags", "Shipping class",
     "Images", "Download limit", "Download expiry days", "Parent",
     "Grouped products", "Upsells", "Cross-sells", "External URL",
     "Button text", "Position"}

\* availability_to_bool: "none", "true", "false", or "raise" when the value
\* has no .split
availability_to_bool(avail) ==
    IF ~Truthy(avail) THEN "none"
    ELSE IF avail.t # "str" THEN "raise"
    ELSE IF Lower(LastSegment(avail.s)) = "instock" THEN "true" ELSE "false"

\* prod.get("offers", {}) if isinstance(prod.get("offers"), dict) else {}
OffersOf(p) == IF p.offers.t = "dict" THEN p ELSE EmptyObj
\* offers.get("priceSpecification", {}) if isinstance(..., dict) else {}
PriceSpecOf(o) == IF o.priceSpecification.t = "dict" THEN o ELSE EmptyObj

DescSource(p, pg) == PyOr(Get(p.description), StrV(pg.desc))
PriceType(p) == GetD(PriceSpecOf(OffersOf(p)).priceType, StrV(""))
Avail(p) == GetD(OffersOf(p).availability, StrV(""))

\* the statement of lines 159-180 that raises AttributeError, if any
MapRaises(p, pg) ==
    \/ Truthy(DescSource(p, pg)) /\ DescSource(p, pg).t # "str"
    \/ availability_to_bool(Avail(p)) = "raise"
    \/ PriceType(p).t # "str"

\* Product(...).to_dict() of lines 159-225, when nothing raised
MapRecord(p, pg) ==
    LET offers     == OffersOf(p)
        price_spec == PriceSpecOf(offers)
        name       == PyOr(Get(p.name), StrV(pg.title))
        sku        == PyOr(Get(p.sku), StrV(""))
        desc       == IF Truthy(DescSource(p, pg))
                         THEN StrV(Strip(DescSource(p, pg).s)) ELSE StrV("")
        image_url  == IF p.image.t = "dict" THEN PyOr(Get(p.image_url), StrV(""))
                      ELSE IF p.image.t = "str" THEN p.image
                      ELSE StrV("")
        sale_price == Get(offers.price)
        until      == GetD(offers.priceValidUntil, StrV(""))
        in_stock   == availability_to_bool(Avail(p))
        reg_price  == IF EndsWithStrikethroughPrice(PriceType(p).s)
                         THEN PyStr(PyOr(Get(price_spec.specPrice), StrV("")))
                         ELSE StrV("")
    IN  [h \in WOO_HEADERS |->
            CASE h = "ID" -> StrV(pg.pid)
              [] h = "Type" -> StrV("simple")
              [] h = "SKU" -> sku
              [] h = "Name" -> name
              [] h = "Published" -> StrV("1")
              [] h = "Is featured?" -> StrV("0")
              [] h = "Visibility in catalog" -> StrV("visible")
              [] h = "Description" -> desc
              [] h = "Date sale price ends" -> until
              [] h = "Tax status" -> StrV("taxable")
              [] h = "In stock?" ->
                    IF in_stock = "true" THEN StrV("1")
                    ELSE IF in_stock # "none" THEN StrV("0") ELSE StrV("")
              [] h = "Backorders allowed?" -> StrV("no")
              [] h = "Sold individually?" -> StrV("no")
              [] h = "Allow customer reviews?" -> StrV("1")
              [] h = "Sale price" ->
                    IF sale_price.t # "null" THEN PyStr(sale_price) ELSE StrV("")
              [] h = "Regular price" -> reg_price
              [] h = "Images" -> image_url
              [] h = "Position" -> StrV("0")
              [] OTHER -> StrV("")]

\* ---------------------------------------------------------------- build_product_from_url
NoRecord == [h \in WOO_HEADERS |-> StrV("")]
NoPick   == [res |-> "none", i |-> 0]
NoErr    == [exc |-> "", stage |-> ""]

\* build_product_from_url is not running
BuildIdle ==
    /\ doc = <<>>
    /\ page = [title |-> "", desc |-> "", pid |-> ""]
    /\ bi = 0
    /\ objs = <<>>
    /\ pick = NoPick
    /\ prod = EmptyObj
    /\ record = NoRecord
    /\ bpc = "idle"
    /\ berr = NoErr

\* get_page returned and BeautifulSoup parsed the document (lines 144-154)
InitBuildVars ==
    /\ doc \in SimpleDocs \cup RichDocs
    /\ page \in Pages
    /\ bi = 0
    /\ objs = <<>>
    /\ pick = NoPick
    /\ prod = EmptyObj
    /\ record = NoRecord
    /\ bpc = "parse"
    /\ berr = NoErr

\* one iteration of parse_ldjson_all's loop over the script blocks
ParseBlock ==
    /\ bpc = "parse"
    /\ bi < Len(doc)
    /\ bi' = bi + 1
    /\ LET b == doc[bi + 1] IN
        IF b.raw = "empty"
            THEN UNCHANGED <<objs, bpc, berr>>
        ELSE IF LoadsRaw(b) \/ LoadsStripped(b)
            THEN objs' = objs \o Aggregate(b) /\ UNCHANGED <<bpc, berr>>
        ELSE /\ bpc' = "raised"
             /\ berr' = [exc |-> "JSONDecodeError", stage |-> "parse"]
             /\ objs' = objs
    /\ UNCHANGED <<doc, page, pick, prod, record>>
    /\ UNCHANGED <<schedVars, dedupVars, fetchVars>>

\* the loop is over: return objs
ParseReturn ==
    /\ bpc = "parse"
    /\ bi = Len(doc)
    /\ bpc' = "pick"
    /\ UNCHANGED <<doc, page, bi, objs, pick, prod, record, berr>>
    /\ UNCHANGED <<schedVars, dedupVars, fetchVars>>

\* prod = pick_product_obj(ld) or {}
PickProduct ==
    /\ bpc = "pick"
    /\ pick' = pick_product_obj(objs)
    /\ IF pick'.res = "raise"
          THEN /\ bpc' = "raised"
               /\ berr' = [exc |-> "AttributeError", stage |-> "pick"]
               /\ prod' = prod
          ELSE /\ bpc' = "map"
               /\ berr' = berr
               /\ prod' = IF pick'.res = "found" THEN objs[pick'.i] ELSE EmptyObj
    /\ UNCHANGED <<doc, page, bi, objs, record>>
    /\ UNCHANGED <<schedVars, dedupVars, fetchVars>>

\* lines 159-225 and _task's p.to_dict()
MapProduct ==
    /\ bpc = "map"
    /\ IF MapRaises(prod, page)
          THEN /\ bpc' = "raised"
               /\ berr' = [exc |-> "AttributeError", stage |-> "map"]
               /\ record' = record
          ELSE /\ bpc' = "returned"
               /\ berr' = berr
               /\ record' = MapRecord(prod, page)
    /\ UNCHANGED <<doc, page, bi, objs, pick, prod>>
    /\ UNCHANGED <<schedVars, dedupVars, fetchVars>>

\* ---------------------------------------------------------------- URL canonical form
MaxRaw  == 3    \* most raw URLs handed to the dedup loop
MaxTail == 1    \* most characters after "https://host" in a raw URL

\* A raw URL is "https://host" followed by these characters; the scheme and
\* the host are kept as they are by urlsplit/urlunsplit.
UrlChars == {"a", "?", "#"}
RawUrls  == SeqsUpTo(UrlChars, MaxTail)

\* url.split(c, 1)[0]: the text before the first c, all of it without a c
Before(u, c) ==
    IF \E i \in 1..Len(u) : u[i] = c
        THEN SubSeq(u, 1, (CHOOSE i \in 1..Len(u) :
                              u[i] = c /\ \A j \in 1..(i - 1) : u[j] # c) - 1)
        ELSE u

\* a canonical form that drops the query string only
CanonicalKeepFragment(u) == Before(u, "?")

\* urlunsplit((s.scheme, s.netloc, s.path, "", "")) of s = urlsplit(u):
\* urlsplit cuts the fragment at the first "#", then the query at the first "?"
Canonical(u) == Before(Before(u, "#"), "?")

\* scrape_category_urls is not running
DedupIdle ==
    /\ hrefs = <<>>
    /\ cleaned = <<>>
    /\ seen = {}
    /\ di = 0
    /\ dpc = "idle"

\* the hrefs were harvested (lines 251-261); cleaned, seen = [], set()
InitDedupVars ==
    /\ hrefs \in SeqsUpTo(RawUrls, MaxRaw)
    /\ cleaned = <<>>
    /\ seen = {}
    /\ di = 0
    /\ dpc = "loop"

\* one iteration of `for u in urls` (lines 264-269)
DedupStep ==
    /\ dpc = "loop"
    /\ di < Len(hrefs)
    /\ di' = di + 1
    /\ LET no_q == Canonical(hrefs[di + 1]) IN
        IF no_q \notin seen
            THEN seen' = seen \cup {no_q} /\ cleaned' = Append(cleaned, no_q)
            ELSE UNCHANGED <<seen, cleaned>>
    /\ UNCHANGED <<hrefs, dpc>>
    /\ UNCHANGED <<schedVars, buildVars, fetchVars>>

\* the loop is over: return cleaned
DedupReturn ==
    /\ dpc = "loop"
    /\ di = Len(hrefs)
    /\ dpc' = "returned"
    /\ UNCHANGED <<hrefs, cleaned, seen, di>>
    /\ UNCHANGED <<schedVars, buildVars, fetchVars>>

\* ---------------------------------------------------------------- get_page and the retry policy
NumFetches == 2    \* concurrent get_page calls

\* Retry(total=3, ...)
RetryTotal == 3
\* status_forcelist=(429, 500, 502, 503, 504)
status_forcelist == {429, 500, 502, 503, 504}
\* urllib3's Retry.RETRY_AFTER_STATUS_CODES, honoured by default
RETRY_AFTER_STATUS_CODES == {413, 429, 503}

\* What one attempt of the GET meets: a network-level error (status 0) or a
\* response status, with or without a Retry-After header.
Outcome(status, ra) == [status |-> status, retry_after |-> ra]
Outcomes ==
    {Outcome(c, FALSE) : c \in {0, 200, 304, 404, 413, 429, 500, 502, 503, 504}}
    \cup {Outcome(413, TRUE)}
NoOutcome == Outcome(-1, FALSE)

\* Retry.is_retry for a GET, and the retry on a connection or read error
is_retry(o, total) ==
    \/ o.status = 0
    \/ o.status \in status_forcelist
    \/ total # 0 /\ o.retry_after /\ o.status \in RETRY_AFTER_STATUS_CODES

\* a budget that counts attempts instead of retries
is_exhausted_early(total) == total <= 0

\* Retry.is_exhausted, after Retry.increment took one off total
is_exhausted(total) == total < 0

\* Response.raise_for_status raises HTTPError
raise_for_status(o) == o.status >= 400 /\ o.status < 600

\* no get_page call is running
FetchIdle ==
    /\ attempts = <<>>
    /\ retries = <<>>
    /\ last = <<>>
    /\ fres = <<>>

\* SESSION.get(url, timeout=timeout) is called by NumFetches tasks: each
\* request starts from the adapter's Retry(total=3)
InitFetchVars ==
    /\ attempts = [f \in 1..NumFetches |-> 0]
    /\ retries = [f \in 1..NumFetches |-> RetryTotal]
    /\ last = [f \in 1..NumFetches |-> NoOutcome]
    /\ fres = [f \in 1..NumFetches |-> "pending"]

\* one attempt of fetch f's GET meets outcome o (urlopen's retry loop, then
\* r.raise_for_status(); return r.text)
Attempt(f, o) ==
    /\ fres[f] = "pending"
    /\ attempts' = [attempts EXCEPT ![f] = @ + 1]
    /\ last' = [last EXCEPT ![f] = o]
    /\ IF is_retry(o, retries[f])
          THEN /\ retries' = [retries EXCEPT ![f] = @ - 1]
               /\ fres' = [fres EXCEPT ![f] =
                            IF is_exhausted(retries'[f]) THEN "failure" ELSE "pending"]
          ELSE /\ retries' = retries
               /\ fres' = [fres EXCEPT ![f] =
                            IF raise_for_status(o) THEN "failure" ELSE "document"]
    /\ UNCHANGED <<schedVars, buildVars, dedupVars>>

\* ---------------------------------------------------------------- scheduler
Urls     == 1..Len(urls)
CurBatch == IF idx \in 1..Len(batches) THEN batches[idx] ELSE <<>>
Running  == {u \in Urls : st[u] \in {"jitter", "fetch", "extract"}}
Raised   == {u \in Urls : st[u] \in {"fetch_err", "parse_err"}}
Finished == {u \in Urls : st[u] = "ok"} \cup Raised

InitSched ==
    /\ urls \in {[i \in 1..n |-> i] : n \in 0..MaxUrls}
    /\ per_batch_limit \in 1..MaxBatchLimit
    /\ max_workers \in 1..MaxWorkers
    /\ batches = <<>>
    /\ idx = 0
    /\ pc = "start"
    /\ nsub = 0
    /\ st = [u \in 1..Len(urls) |-> "none"]
    /\ started = [u \in 1..Len(urls) |-> 0]
    /\ collected = [u \in 1..Len(urls) |-> FALSE]
    /\ rows = <<>>
    /\ all_rows = <<>>
    /\ sleeps = 0
    /\ cooled = {}
    /\ BuildIdle
    /\ DedupIdle
    /\ FetchIdle

\* the head of `for idx, batch in enumerate(batches, start=1)` followed by the
\* first statement of fetch_all_products (rows = [])
EnterBatch(k) ==
    /\ idx' = k
    /\ rows' = <<>>
    /\ nsub' = 0
    /\ pc' = "submit"

\* all_rows = []; batches = list(chunked(urls, per_batch_limit)); loop head
Begin ==
    /\ pc = "start"
    /\ batches' = chunked(urls, per_batch_limit)
    /\ all_rows' = <<>>
    /\ IF Len(batches') = 0
          THEN pc' = "done" /\ UNCHANGED <<idx, rows, nsub>>
          ELSE EnterBatch(1)
    /\ UNCHANGED <<buildVars, dedupVars, fetchVars>>
    /\ UNCHANGED <<urls, per_batch_limit, max_workers, st, started, collected,
                   sleeps, cooled>>

\* one ex.submit(_task, u) of the list comprehension
Submit ==
    /\ pc = "submit"
    /\ nsub < Len(CurBatch)
    /\ st' = [st EXCEPT ![CurBatch[nsub + 1]] = "pending"]
    /\ nsub' = nsub + 1
    /\ pc' = IF nsub' = Len(CurBatch) THEN "collect" ELSE "submit"
    /\ UNCHANGED <<buildVars, dedupVars, fetchVars>>
    /\ UNCHANGED <<urls, per_batch_limit, max_workers, batches, idx, started,
                   collected, rows, all_rows, sleeps, cooled>>

\* a pool that starts one work item more than it has workers
FreeWorkerLoose == Cardinality(Running) <= max_workers

\* ThreadPoolExecutor(max_workers): a worker is free
FreeWorker == Cardinality(Running) < max_workers

\* the executor's work queue is FIFO
FirstPending(u) ==
    /\ st[u] = "pending"
    /\ \A v \in Urls : st[v] = "pending" => u <= v

\* a worker takes u's work item and enters _task: time.sleep(jitter)
StartTask(u) ==
    /\ FirstPending(u)
    /\ FreeWorker
    /\ st' = [st EXCEPT ![u] = "jitter"]
    /\ started' = [started EXCEPT ![u] = @ + 1]
    /\ UNCHANGED <<buildVars, dedupVars, fetchVars>>
    /\ UNCHANGED <<urls, per_batch_limit, max_workers, batches, idx, pc, nsub,
                   collected, rows, all_rows, sleeps, cooled>>

TaskStep(u, from, to) ==
    /\ st[u] = from
    /\ st' = [st EXCEPT ![u] = to]
    /\ UNCHANGED <<buildVars, dedupVars, fetchVars>>
    /\ UNCHANGED <<urls, per_batch_limit, max_workers, batches, idx, pc, nsub,
                   started, collected, rows, all_rows, sleeps, cooled>>

\* the jitter sleep returns and build_product_from_url calls get_page
JitterDone(u)  == TaskStep(u, "jitter", "fetch")
\* get_page returns the document
FetchOk(u)     == TaskStep(u, "fetch", "extract")
\* get_page raises (retries exhausted, raise_for_status)
FetchFail(u)   == TaskStep(u, "fetch", "fetch_err")
\* parsing and mapping return; _task returns p.to_dict()
ExtractOk(u)   == TaskStep(u, "extract", "ok")
\* parsing or mapping raises
ExtractFail(u) == TaskStep(u, "extract", "parse_err")

\* one iteration of `for f in as_completed(futures)` whose f.result() is not
\* guarded by try/except
CollectNoCatch(u) ==
    /\ pc = "collect"
    /\ u \in Range(CurBatch)
    /\ u \in Finished
    /\ ~collected[u]
    /\ collected' = [collected EXCEPT ![u] = TRUE]
    /\ IF st[u] = "ok"
          THEN rows' = Append(rows, u) /\ pc' = pc
          ELSE rows' = rows /\ pc' = "aborted"
    /\ UNCHANGED <<buildVars, dedupVars, fetchVars>>
    /\ UNCHANGED <<urls, per_batch_limit, max_workers, batches, idx, nsub, st,
                   started, all_rows, sleeps, cooled>>

\* one iteration of `for f in as_completed(futures)`: rows.append(f.result())
\* or print("[ERR]", e)
Collect(u) ==
    /\ pc = "collect"
    /\ u \in Range(CurBatch)
    /\ u \in Finished
    /\ ~collected[u]
    /\ collected' = [collected EXCEPT ![u] = TRUE]
    /\ rows' = IF st[u] = "ok" THEN Append(rows, u) ELSE rows
    /\ UNCHANGED <<buildVars, dedupVars, fetchVars>>
    /\ UNCHANGED <<urls, per_batch_limit, max_workers, batches, idx, pc, nsub,
                   st, started, all_rows, sleeps, cooled>>

\* as_completed is exhausted without every future being done
PoolDrainedEarly == \E u \in Range(CurBatch) : collected[u]

\* as_completed is exhausted: every future of the batch was yielded; the
\* `with` block's shutdown(wait=True) then finds no running task
PoolDrained == \A u \in Range(CurBatch) : collected[u]

\* the cooldown test without the exception for the last batch
NeedCooldownAlways == idx <= Len(batches)

\* if idx < len(batches)
NeedCooldown == idx < Len(batches)

\* return rows; all_rows.extend(rows); the cooldown test; time.sleep begins
LeavePool ==
    /\ pc = "collect"
    /\ PoolDrained
    /\ all_rows' = all_rows \o rows
    /\ IF NeedCooldown
          THEN pc' = "cooldown" /\ sleeps' = sleeps + 1
          ELSE pc' = "done" /\ sleeps' = sleeps
    /\ UNCHANGED <<buildVars, dedupVars, fetchVars>>
    /\ UNCHANGED <<urls, per_batch_limit, max_workers, batches, idx, nsub, st,
                   started, collected, rows, cooled>>

\* time.sleep(cooldown_sec) returns; next iteration of the for loop
CooldownDone ==
    /\ pc = "cooldown"
    /\ cooled' = cooled \cup {idx}
    /\ IF idx < Len(batches)
          THEN EnterBatch(idx + 1)
          ELSE pc' = "done" /\ UNCHANGED <<idx, rows, nsub>>
    /\ UNCHANGED <<buildVars, dedupVars, fetchVars>>
    /\ UNCHANGED <<urls, per_batch_limit, max_workers, batches, st, started,
                   collected, all_rows, sleeps>>

Next ==
    \/ Begin
    \/ Submit
    \/ \E u \in Urls : StartTask(u)
    \/ \E u \in Urls : JitterDone(u)
    \/ \E u \in Urls : FetchOk(u)
    \/ \E u \in Urls : FetchFail(u)
    \/ \E u \in Urls : ExtractOk(u)
    \/ \E u \in Urls : ExtractFail(u)
    \/ \E u \in Urls : Collect(u)
    \/ LeavePool
    \/ CooldownDone

Init == InitSched

Spec == Init /\ [][Next]_vars

\* threads are scheduled, sleeps return and get_page has a timeout: a step
\* that can be taken is eventually taken
FairSpec == Spec /\ WF_vars(Next)

\* ---------------------------------------------------------------- the build specification
\* the scheduler is not running
SchedIdle ==
    /\ urls = <<>>
    /\ per_batch_limit = 1
    /\ max_workers = 1
    /\ batches = <<>>
    /\ idx = 0
    /\ pc = "idle"
    /\ nsub = 0
    /\ st = <<>>
    /\ started = <<>>
    /\ collected = <<>>
    /\ rows = <<>>
    /\ all_rows = <<>>
    /\ sleeps = 0
    /\ cooled = {}

InitBuild == SchedIdle /\ InitBuildVars /\ DedupIdle /\ FetchIdle

NextBuild ==
    \/ ParseBlock
    \/ ParseReturn
    \/ PickProduct
    \/ MapProduct

SpecBuild == InitBuild /\ [][NextBuild]_vars

\* ---------------------------------------------------------------- the dedup specification
InitDedup == SchedIdle /\ BuildIdle /\ InitDedupVars /\ FetchIdle

NextDedup ==
    \/ DedupStep
    \/ DedupReturn

SpecDedup == InitDedup /\ [][NextDedup]_vars

\* ---------------------------------------------------------------- the fetch specification
InitFetch == SchedIdle /\ BuildIdle /\ DedupIdle /\ InitFetchVars

NextFetch == \E f \in 1..NumFetches, o \in Outcomes : Attempt(f, o)

SpecFetch == InitFetch /\ [][NextFetch]_vars

\* ---------------------------------------------------------------- scheduler properties
NumBatches == Len(batches)
InBatch(k) == Range(batches[k])

\* C1 (batch barrier): whenever a task of batch k+1 has been submitted or
\* has run, every task of batch k has finished with a result or an exception
\* and the cooldown sleep after batch k has returned; the running tasks at any
\* moment all belong to one batch.
C1_BatchBarrier ==
    /\ \A k \in 1..(NumBatches - 1) :
          (\E v \in InBatch(k + 1) : st[v] # "none")
              => /\ \A u \in InBatch(k) : u \in Finished
                 /\ k \in cooled
    /\ \A k1 \in 1..NumBatches, k2 \in 1..NumBatches :
          (InBatch(k1) \cap Running # {} /\ InBatch(k2) \cap Running # {}) => k1 = k2

\* a task of the second batch is running after the first batch finished
C1_Witness ==
    /\ NumBatches >= 2
    /\ InBatch(2) \cap Running # {}
    /\ Cardinality(InBatch(1)) >= 2
    /\ InBatch(1) \cap Raised # {}

\* C2 (fault isolation): the run completes, and when it has, every URL's task
\* has finished, a URL whose task raised (at fetch or at parse) has no row and
\* a URL whose task succeeded has exactly one row in the result.
C2_FaultIsolation ==
    /\ <>(pc = "done")
    /\ [](pc = "done" =>
            /\ \A u \in Urls : u \in Finished
            /\ \A u \in Urls : Count(u, all_rows) = (IF st[u] = "ok" THEN 1 ELSE 0)
            /\ Len(all_rows) = Cardinality(Urls \ Raised))

\* a finished run in which a batch had a fetch failure, a parse failure and a
\* success, and a later batch succeeded
C2_Witness ==
    /\ pc = "done"
    /\ NumBatches >= 2
    /\ \E a \in InBatch(1), b \in InBatch(1), c \in InBatch(1) :
          st[a] = "fetch_err" /\ st[b] = "parse_err" /\ st[c] = "ok"
    /\ \E w \in InBatch(2) : st[w] = "ok"

\* C3 (cooldown placement): one cooldown sleep after every batch but the
\* last: while batch idx is being processed idx-1 sleeps were made, a sleep
\* in progress follows a batch that is not the last, and a finished run over B
\* batches made max(B-1, 0) sleeps; no URL gives no batch, no row and no
\* sleep; a batch size of at least the URL count gives one batch, no sleep.
C3_CooldownPlacement ==
    /\ pc \in {"submit", "collect"} => sleeps = idx - 1 /\ cooled = 1..(idx - 1)
    /\ pc = "cooldown" => sleeps = idx /\ idx < NumBatches /\ cooled = 1..(idx - 1)
    /\ pc = "done" =>
          /\ sleeps = Max(NumBatches - 1, 0)
          /\ cooled = 1..(NumBatches - 1)
          /\ Len(urls) = 0 => NumBatches = 0 /\ all_rows = <<>> /\ sleeps = 0
          /\ (Len(urls) > 0 /\ per_batch_limit >= Len(urls))
                => NumBatches = 1 /\ sleeps = 0

\* a finished run over three batches with two sleeps
C3_Witness == pc = "done" /\ NumBatches = 3 /\ sleeps = 2 /\ cooled = {1, 2}

\* C4 (bounded concurrency): at most max_workers tasks are in jitter sleep,
\* fetching or extracting at any moment, no URL's task is begun twice, and the
\* run reaches the end, where every URL's task was begun exactly once.
C4_BoundedConcurrency ==
    /\ [](Cardinality(Running) <= max_workers)
    /\ [](\A u \in Urls : started[u] <= 1)
    /\ <>(pc = "done" /\ \A u \in Urls : started[u] = 1 /\ u \in Finished)

\* the pool is full while another task of the batch waits in the queue
C4_Witness ==
    /\ Cardinality(Running) = max_workers
    /\ \E u \in Urls : st[u] = "pending"
    /\ max_workers >= 2

\* C5 (batch partitioning): the chunks concatenate to the input in order,
\* each chunk is non-empty and at most per_batch_limit long, and every chunk
\* but the last is exactly per_batch_limit long.
C5_BatchPartitioning ==
    pc # "start" =>
        /\ Flatten(batches) = urls
        /\ \A k \in 1..NumBatches :
              Len(batches[k]) >= 1 /\ Len(batches[k]) <= per_batch_limit
        /\ \A k \in 1..(NumBatches - 1) : Len(batches[k]) = per_batch_limit

\* three chunks, the last shorter than the others
C5_Witness ==
    /\ pc # "start"
    /\ NumBatches = 3
    /\ Len(batches[1]) = per_batch_limit
    /\ Len(batches[3]) < per_batch_limit

\* ---------------------------------------------------------------- extractor and mapper properties
\* C6 (malformed block is never fatal): a block whose text parses neither raw
\* nor stripped is skipped: consuming it raises nothing, so the document's
\* task does not end with a JSONDecodeError.
C6_MalformedBlockNotFatal ==
    (\E i \in 1..bi : doc[i].raw = "bad")
        => ~(bpc = "raised" /\ berr.exc = "JSONDecodeError")

\* the type tag equals "product" case-insensitively: a string, or an element
\* of a list of strings
TagMatchesProduct(tag) ==
    \/ tag.t = "str" /\ Lower(tag.s) = "product"
    \/ tag.t = "list" /\ \E i \in 1..Len(tag.l) : Lower(tag.l[i]) = "product"

\* C7 (product selection): pick_product_obj returns the first object whose
\* type tag case-insensitively equals "product", as a string or as an element
\* of a list, and None only when no object has such a tag.
C7_ProductSelection ==
    (bpc \in {"map", "returned"} /\ \A i \in 1..Len(objs) : objs[i].kind = "dict") =>
        LET m == {i \in 1..Len(objs) : TagMatchesProduct(objs[i].type)} IN
        IF m = {} THEN pick.res = "none"
        ELSE /\ pick.res = "found"
             /\ pick.i \in m
             /\ \A j \in m : pick.i <= j

\* C8 (mapper totality): for any selected object and any page fallback values
\* the mapping step does not raise, and the record it returns has every schema
\* field, each a string.
C8_MapperTotality ==
    /\ ~(bpc = "raised" /\ berr.stage = "map")
    /\ bpc = "returned" =>
          /\ DOMAIN record = WOO_HEADERS
          /\ \A h \in WOO_HEADERS : record[h].t = "str"

\* ---------------------------------------------------------------- dedup properties
\* the raw URL with its query string and fragment removed: its longest
\* prefix free of "?" and "#"
Stripped(u) ==
    SubSeq(u, 1, CHOOSE n \in 0..Len(u) :
                    /\ \A i \in 1..n : u[i] \notin {"?", "#"}
                    /\ n < Len(u) => u[n + 1] \in {"?", "#"})

\* the raw URLs the loop has consumed, and where a canonical form first occurs
Consumed == SubSeq(hrefs, 1, di)
FirstAt(c) == CHOOSE i \in 1..di : Stripped(hrefs[i]) = c /\ \A j \in 1..(i - 1) : Stripped(hrefs[j]) # c

\* C9 (discovery dedup): of the raw URLs consumed so far, with K distinct
\* canonical forms, cleaned holds exactly those K forms, none twice, in the
\* order of their first occurrence; no entry keeps a query or a fragment.
C9_DiscoveryDedup ==
    dpc \in {"loop", "returned"} =>
        /\ Len(cleaned) = Cardinality({Stripped(hrefs[i]) : i \in 1..di})
        /\ Range(cleaned) = {Stripped(hrefs[i]) : i \in 1..di}
        /\ \A j \in 1..Len(cleaned), k \in 1..Len(cleaned) :
              j < k => cleaned[j] # cleaned[k] /\ FirstAt(cleaned[j]) < FirstAt(cleaned[k])
        /\ \A j \in 1..Len(cleaned) : \A i \in 1..Len(cleaned[j]) :
              cleaned[j][i] \notin {"?", "#"}

\* three raw URLs, two of them differing only in query and fragment, and the
\* later form first seen between them
C9_Witness ==
    /\ dpc = "returned"
    /\ Len(hrefs) = 3
    /\ hrefs[1] # hrefs[3]
    /\ Stripped(hrefs[1]) = Stripped(hrefs[3])
    /\ Stripped(hrefs[2]) # Stripped(hrefs[1])
    /\ \E i \in 1..Len(hrefs[3]) : hrefs[3][i] = "#"
    /\ Len(cleaned) = 2

\* ---------------------------------------------------------------- fetch properties
Fetches == 1..NumFetches
IsHttpError(o) == o.status >= 400 /\ o.status <= 599
MetTransient(o) == o.status = 0 \/ o.status \in {429, 500, 502, 503, 504}

\* C10 as stated (retry budget): a fetch makes at most 3 attempts; it goes on
\* only after a connection error or a 429/500/502/503/504; it never ends as a
\* document on a non-2xx status, and ends as a failure once the budget is
\* spent or such a status is met.
C10_RetryBudgetAsStated ==
    \A f \in Fetches :
        /\ attempts[f] <= 3
        /\ (fres[f] = "pending" /\ attempts[f] > 0) => MetTransient(last[f])
        /\ fres[f] = "document" => last[f].status \in 200..299
        /\ fres[f] = "failure" => (MetTransient(last[f]) \/ last[f].status \notin 200..299)

\* C10 (retry budget, amended): a fetch makes at most 4 attempts, the first
\* and 3 retries; it goes on only after a connection error, a
\* 429/500/502/503/504, or a 413 carrying Retry-After; it ends as a failure
\* exactly when its latest attempt met an error the retries could not absorb
\* (a transient error on the 4th attempt, or a 4xx/5xx that is not retried),
\* never as a document on a 4xx/5xx; and a fetch that meets only transient
\* errors fails on its own 4th attempt whatever the other fetches did.
C10_RetryBudget ==
    \A f \in Fetches :
        /\ attempts[f] <= 4
        /\ retries[f] >= 3 - attempts[f]
        /\ (fres[f] = "pending" /\ attempts[f] > 0) =>
              (MetTransient(last[f]) \/ (last[f].status = 413 /\ last[f].retry_after))
        /\ fres[f] = "document" => ~IsHttpError(last[f])
        /\ fres[f] = "failure" => (last[f].status = 0 \/ IsHttpError(last[f]))
        /\ (fres[f] = "failure" /\ MetTransient(last[f])) => attempts[f] = 4
        /\ (attempts[f] = 4 /\ MetTransient(last[f])) => fres[f] = "failure"
        /\ (IsHttpError(last[f]) /\ ~MetTransient(last[f]) /\ ~last[f].retry_after)
              => fres[f] = "failure"

\* one fetch spent its budget on its 4th attempt while the other, after one
\* retry, returned a document
C10_Witness ==
    \E f \in Fetches, g \in Fetches :
        /\ fres[f] = "failure" /\ attempts[f] = 4 /\ last[f].status = 503
        /\ fres[g] = "document" /\ attempts[g] = 2

====
